---- MODULE Spec2Model ----
(***************************************************************************)
(* Model of the three HTTP handlers of the anonymous message dashboard:    *)
(*   backend/auth/index.py      register / login                           *)
(*   backend/messages/index.py  flat board: list / create                  *)
(*   backend/topics/index.py    topics and topic messages                  *)
(* The relational store is modelled by three append-only tables.           *)
(***************************************************************************)
EXTENDS Integers, Sequences, FiniteSets, TLC

(* ------------------------------ bounds --------------------------------- *)
NumProcs == 2        \* concurrent invocations of the auth handler
MaxTokens == 3       \* tokens minted by register/login that are tracked
MaxTopics == 2       \* rows of the topics table
MaxMessages == 3     \* rows of the messages table
MaxClock == 2        \* readings of the store clock

Procs == 1..NumProcs

(* ------------------------------ strings -------------------------------- *)
\* A string is a sequence of one-character strings.
Whitespace == {" ", "\t", "\n"}

\* str.strip(): drop leading and trailing whitespace.
RECURSIVE LStrip(_)
LStrip(s) == IF s = <<>> THEN <<>>
             ELSE IF Head(s) \in Whitespace THEN LStrip(Tail(s)) ELSE s

RECURSIVE RStrip(_)
RStrip(s) == IF s = <<>> THEN <<>>
             ELSE IF s[Len(s)] \in Whitespace
                  THEN RStrip(SubSeq(s, 1, Len(s) - 1)) ELSE s

\* A handler that tests the field without strip().
StripNone(s) == s

Strip(s) == RStrip(LStrip(s))

\* hashlib.sha256(password).hexdigest(): a digest is not the password; the
\* digest function is taken to be collision free.
hash_password(password) == <<"sha256">> \o password

(* --------------------------- request inputs ---------------------------- *)
\* Raw field values of the auth handler's JSON body.  Each set holds a value
\* that is empty after trimming; usernames and emails trim to "a" or "A",
\* users register with the password "a" and log in with "a" or "A".
Usernames == { <<" ">>, <<" ", "a", " ">>, <<"A">> }
Emails == { <<>>, <<"a">>, <<"A", " ">> }
RegisterPasswords == { <<" ">>, <<"a", " ">> }
LoginPasswords == { <<>>, <<"a">>, <<"A">> }

\* A request body: text that json.loads rejects ("bad"), a null body
\* (json.loads(None) raises TypeError), or a JSON object ("json").  A key
\* missing from the object reads as '' (body_data.get(key, '')), so it is
\* the empty field value.
Unparsable(body) == body.kind # "json"

RegisterBodies ==
  [kind : {"json"}, username : Usernames, email : Emails,
   password : RegisterPasswords]
  \cup [kind : {"bad", "null"}, username : {<<>>}, email : {<<>>},
        password : {<<>>}]

LoginBodies ==
  [kind : {"json"}, email : Emails, password : LoginPasswords]
  \cup [kind : {"bad", "null"}, email : {<<>>}, password : {<<>>}]

(* ------------------------------- state --------------------------------- *)
VARIABLES
  users,      \* users table: sequence of [id, username, email, password_hash]
  topics,     \* topics table: sequence of [id, title, user_id, created_at]
  messages,   \* messages table: [id, content, user_id, topic_id, created_at]
  clock,      \* the store's now()
  issued,     \* issued[k] = id of the user token k was returned to
  pc,         \* per auth invocation: "idle" or "reg_insert"
  pending,    \* per auth invocation: the trimmed fields of a register that
              \* has run its SELECT and not yet its INSERT
  regLog,     \* the 201 responses of register, in order, with the trimmed
              \* fields of their requests: [username, email, password, id]
  resp        \* the response of the invocation that ended last

vars == <<users, topics, messages, clock, issued, pc, pending, regLog, resp>>

Null == 0     \* SQL NULL in an integer column

NoPending == [username |-> <<>>, email |-> <<>>, password |-> <<>>]

NoResp ==
  [op |-> "none", status |-> 0, conn |-> "none", id |-> 0, token |-> 0,
   list |-> <<>>, error |-> "none", kind |-> "none", text |-> <<>>]

\* conn: "closed" when cur.close(); conn.close() ran before the return,
\* "open" when the invocation ended without them.
\* id: the id of the row the response carries; token: the token the auth
\* handler returned, or the X-Auth-Token the topics handler was sent;
\* list: the rows of a list response; kind, text: the kind of body and the raw
\* content or title of the create request that was answered.
Response(op, status, conn, id, token, list) ==
  [op |-> op, status |-> status, conn |-> conn, id |-> id, token |-> token,
   list |-> list, error |-> "none", kind |-> "none", text |-> <<>>]

WithText(response, body, text) ==
  [response EXCEPT !.kind = body.kind, !.text = text]

\* An exception that leaves the handler: no statement after the one that
\* raised runs, and the platform answers 500.
Raised(op, error) ==
  [Response(op, 500, "open", 0, 0, <<>>) EXCEPT !.error = error]

Range(s) == { s[i] : i \in 1..Len(s) }

(* ---------------------------- auth handler ----------------------------- *)
\* SELECT id FROM users WHERE username = %s OR email = %s
Existing(username, email) ==
  { u \in Range(users) : u.username = username \/ u.email = email }

\* users(username UNIQUE, email UNIQUE): the INSERT raises on a duplicate.
UniqueViolation(username, email) ==
  \E u \in Range(users) : u.username = username \/ u.email = email

\* OPTIONS: answered before a connection is acquired.
AuthOptions(p) ==
  /\ pc[p] = "idle"
  /\ resp' = Response("options", 200, "none", 0, 0, <<>>)
  /\ UNCHANGED <<users, topics, messages, clock, issued, pc, pending, regLog>>

\* POST ?action=register, up to the existence SELECT.
RegisterSelect(p, body) ==
  /\ pc[p] = "idle"
  /\ IF Unparsable(body)
     THEN /\ resp' = Raised("register", "json.loads")
          /\ UNCHANGED <<pc, pending>>
     ELSE LET username == Strip(body.username)
              email == Strip(body.email)
              password == Strip(body.password)
          IN IF username = <<>> \/ email = <<>> \/ password = <<>>
             THEN /\ resp' = Response("register", 400, "closed", 0, 0, <<>>)
                  /\ UNCHANGED <<pc, pending>>
             ELSE IF Existing(username, email) # {}
             THEN /\ resp' = Response("register", 409, "closed", 0, 0, <<>>)
                  /\ UNCHANGED <<pc, pending>>
             ELSE /\ pc' = [pc EXCEPT ![p] = "reg_insert"]
                  /\ pending' = [pending EXCEPT ![p] =
                        [username |-> username, email |-> email,
                         password |-> password]]
                  /\ UNCHANGED resp
  /\ UNCHANGED <<users, topics, messages, clock, issued, regLog>>

\* A register that swallows the store's error and answers 201 all the same.
RegisterInsertUnchecked(p) ==
  /\ pc[p] = "reg_insert"
  /\ Len(issued) < MaxTokens
  /\ LET r == pending[p]
         id == Len(users) + 1
     IN /\ IF UniqueViolation(r.username, r.email)
           THEN UNCHANGED users
           ELSE users' = Append(users,
                     [id |-> id, username |-> r.username, email |-> r.email,
                      password_hash |-> hash_password(r.password)])
        /\ issued' = Append(issued, id)
        /\ regLog' = Append(regLog,
                     [username |-> r.username, email |-> r.email,
                      password |-> r.password, id |-> id])
        /\ resp' = Response("register", 201, "closed", id, Len(issued) + 1,
                            <<>>)
  /\ pc' = [pc EXCEPT ![p] = "idle"]
  /\ pending' = [pending EXCEPT ![p] = NoPending]
  /\ UNCHANGED <<topics, messages, clock>>

\* register, from the INSERT to the 201 response.
RegisterInsert(p) ==
  /\ pc[p] = "reg_insert"
  /\ LET r == pending[p]
         id == Len(users) + 1
     IN IF UniqueViolation(r.username, r.email)
        THEN /\ resp' = Raised("register", "UniqueViolation")
             /\ UNCHANGED <<users, issued, regLog>>
        ELSE /\ Len(issued) < MaxTokens
             /\ users' = Append(users,
                     [id |-> id, username |-> r.username, email |-> r.email,
                      password_hash |-> hash_password(r.password)])
             /\ issued' = Append(issued, id)
             /\ regLog' = Append(regLog,
                     [username |-> r.username, email |-> r.email,
                      password |-> r.password, id |-> id])
             /\ resp' = Response("register", 201, "closed", id, Len(issued) + 1,
                            <<>>)
  /\ pc' = [pc EXCEPT ![p] = "idle"]
  /\ pending' = [pending EXCEPT ![p] = NoPending]
  /\ UNCHANGED <<topics, messages, clock>>

\* A login SELECT without the password_hash condition.
LoginRowsByEmail(email, password_hash) ==
  { u \in Range(users) : u.email = email }

\* SELECT ... FROM users WHERE email = %s AND password_hash = %s
LoginRows(email, password_hash) ==
  { u \in Range(users) : u.email = email /\ u.password_hash = password_hash }

\* POST ?action=login
Login(p, body) ==
  /\ pc[p] = "idle"
  /\ IF Unparsable(body)
     THEN /\ resp' = Raised("login", "json.loads")
          /\ UNCHANGED issued
     ELSE LET email == Strip(body.email)
              password == Strip(body.password)
              rows == LoginRows(email, hash_password(password))
          IN IF email = <<>> \/ password = <<>>
             THEN /\ resp' = Response("login", 400, "closed", 0, 0, <<>>)
                  /\ UNCHANGED issued
             ELSE IF rows = {}
             THEN /\ resp' = Response("login", 401, "closed", 0, 0, <<>>)
                  /\ UNCHANGED issued
             ELSE /\ Len(issued) < MaxTokens
                  /\ \E user \in rows :
                       /\ resp' = Response("login", 200, "closed", user.id,
                                           Len(issued) + 1, <<>>)
                       /\ issued' = Append(issued, user.id)
  /\ UNCHANGED <<users, topics, messages, clock, pc, pending, regLog>>

\* Any other method/action of the auth handler.
AuthNotFound(p) ==
  /\ pc[p] = "idle"
  /\ resp' = Response("auth-other", 404, "closed", 0, 0, <<>>)
  /\ UNCHANGED <<users, topics, messages, clock, issued, pc, pending, regLog>>

InitAuth ==
  /\ users = <<>>
  /\ topics = <<>>
  /\ messages = <<>>
  /\ clock = 1
  /\ issued = <<>>
  /\ pc = [p \in Procs |-> "idle"]
  /\ pending = [p \in Procs |-> NoPending]
  /\ regLog = <<>>
  /\ resp = NoResp

NextAuth ==
  \/ \E p \in Procs : AuthOptions(p)
  \/ \E p \in Procs : \E body \in RegisterBodies : RegisterSelect(p, body)
  \/ \E p \in Procs : RegisterInsert(p)
  \/ \E p \in Procs : \E body \in LoginBodies : Login(p, body)
  \/ \E p \in Procs : AuthNotFound(p)

SpecAuth == InitAuth /\ [][NextAuth]_vars

(* ------------------------------ the store ------------------------------ *)
\* created_at is the store's clock reading at the INSERT; the clock may stand
\* still between two statements and never runs backwards.
Tick ==
  /\ clock < MaxClock
  /\ clock' = clock + 1
  /\ UNCHANGED <<users, topics, messages, issued, pc, pending, regLog, resp>>

Max(S) == CHOOSE x \in S : \A y \in S : y <= x

\* The orders in which a SELECT may return the rows `rows` under an ORDER BY:
\* every arrangement in which no row stands before a row that sorts strictly
\* before it; `before` holds the pairs <<a, b>> with a sorting strictly before
\* b.  Rows that compare equal come in any order.
Orderings(rows, before) ==
  { s \in [1..Cardinality(rows) -> rows] :
      /\ \A i, j \in DOMAIN s : i # j => s[i] # s[j]
      /\ \A i, j \in DOMAIN s : i < j => <<s[j], s[i]>> \notin before }

(* --------------------------- messages handler -------------------------- *)
\* Raw values of a content or title field: two that are empty after trimming
\* and one that trims to "a".
Texts == { <<>>, <<" ">>, <<" ", "a">> }

BoardBodies ==
  [kind : {"json"}, content : Texts]
  \cup [kind : {"bad", "null"}, content : {<<>>}]

MessagesOptions ==
  /\ resp' = Response("options", 200, "none", 0, 0, <<>>)
  /\ UNCHANGED <<users, topics, messages, clock, issued, pc, pending, regLog>>

CreatedAsc(a, b) == a.created_at < b.created_at

CreatedDesc(a, b) == a.created_at > b.created_at

\* GET: SELECT id, content, created_at FROM messages ORDER BY created_at DESC
MessagesList ==
  /\ \E rows \in Orderings(Range(messages),
         { p \in Range(messages) \X Range(messages) :
             CreatedDesc(p[1], p[2]) }) :
       resp' = Response("list", 200, "closed", 0, 0,
                        [i \in DOMAIN rows |-> rows[i].id])
  /\ UNCHANGED <<users, topics, messages, clock, issued, pc, pending, regLog>>

\* POST: INSERT INTO messages (content) VALUES (%s)
MessagesCreate(body) ==
  /\ IF Unparsable(body)
     THEN /\ resp' = Raised("create", "json.loads")
          /\ UNCHANGED messages
     ELSE LET content == Strip(body.content)
              id == Len(messages) + 1
          IN IF content = <<>>
             THEN /\ resp' = WithText(Response("create", 400, "closed", 0, 0,
                                               <<>>), body, body.content)
                  /\ UNCHANGED messages
             ELSE /\ Len(messages) < MaxMessages
                  /\ messages' = Append(messages,
                        [id |-> id, content |-> content, user_id |-> Null,
                         topic_id |-> Null, created_at |-> clock])
                  /\ resp' = WithText(Response("create", 201, "closed", id, 0,
                                               <<>>), body, body.content)
  /\ UNCHANGED <<users, topics, clock, issued, pc, pending, regLog>>

\* Any method other than OPTIONS, GET, POST.
MessagesOther ==
  /\ resp' = Response("board-other", 405, "closed", 0, 0, <<>>)
  /\ UNCHANGED <<users, topics, messages, clock, issued, pc, pending, regLog>>

(* ---------------------------- topics handler --------------------------- *)
\* The X-Auth-Token header: 0 when the header is absent or empty, k >= 1 for
\* the k-th string that may be presented; token k was minted by the auth
\* handler iff k <= Len(issued).  NeverIssued is a string the auth handler
\* has not returned to anybody.
NeverIssued == MaxTokens + 1

TokenHeaders == {0, 1, NeverIssued}

\* The headers of the board and forum runs: no token, or the first user's.
ForumTokenHeaders == {0, 1}

\* topic_id of a request: 0 when it is missing (or empty, or JSON 0/null).
TopicIds == 0..MaxTopics

TopicBodies ==
  [kind : {"json"}, title : Texts]
  \cup [kind : {"bad", "null"}, title : {<<>>}]

TopicMessageBodies ==
  [kind : {"json"}, content : Texts, topic_id : TopicIds]
  \cup [kind : {"bad", "null"}, content : {<<>>}, topic_id : {0}]

\* The ids get_user_id_from_token may return; {} stands for None.
\* SELECT id FROM users LIMIT 1 has no ORDER BY: any row may come first.
get_user_id_from_token(token) ==
  IF token = 0 THEN {} ELSE { u.id : u \in Range(users) }

TopicsOptions ==
  /\ resp' = Response("options", 200, "none", 0, 0, <<>>)
  /\ UNCHANGED <<users, topics, messages, clock, issued, pc, pending, regLog>>

NullUser == [id |-> Null]
NullMessage == [id |-> Null, created_at |-> Null]

\* FROM topics t LEFT JOIN users u ON t.user_id = u.id
\*               LEFT JOIN messages m ON m.topic_id = t.id
\* A LEFT JOIN keeps a row without a partner, padded with NULLs.
Joined ==
  UNION { LET us == { u \in Range(users) : u.id = t.user_id }
              ms == { m \in Range(messages) : m.topic_id = t.id }
          IN { [t |-> t, u |-> u, m |-> m] :
                 u \in (IF us = {} THEN {NullUser} ELSE us),
                 m \in (IF ms = {} THEN {NullMessage} ELSE ms) }
        : t \in Range(topics) }

\* COUNT(*) counts the NULL-padded row of a topic without messages.
CountStar(group) == Cardinality(group)

\* GROUP BY t.id, u.id with COUNT(m.id) and MAX(m.created_at); both skip NULLs.
CountMessages(group) == Cardinality({ r \in group : r.m.id # Null })

TopicGroups ==
  { LET group == { r \in Joined : r.t.id = k[1] /\ r.u.id = k[2] }
        t == (CHOOSE r \in group : TRUE).t
        stamps == { r.m.created_at : r \in { x \in group : x.m.id # Null } }
    IN [id |-> t.id, created_at |-> t.created_at, user_id |-> k[2],
        message_count |-> CountMessages(group),
        max_created_at |-> IF stamps = {} THEN Null ELSE Max(stamps)]
    : k \in { <<r.t.id, r.u.id>> : r \in Joined } }

\* ORDER BY last_activity DESC, t.created_at DESC: NULLs first, the default of
\* a descending sort.
ActivityNullsFirst(a, b) ==
  \/ a.max_created_at = Null /\ b.max_created_at # Null
  \/ a.max_created_at # Null /\ b.max_created_at # Null
       /\ a.max_created_at > b.max_created_at
  \/ a.max_created_at = b.max_created_at /\ a.created_at > b.created_at

\* ORDER BY last_activity DESC NULLS LAST, t.created_at DESC
ActivityDesc(a, b) ==
  \/ a.max_created_at # Null /\ b.max_created_at = Null
  \/ a.max_created_at # Null /\ b.max_created_at # Null
       /\ a.max_created_at > b.max_created_at
  \/ a.max_created_at = b.max_created_at /\ a.created_at > b.created_at

\* topics_list entry: last_activity falls back to the topic's created_at.
TopicEntry(g) ==
  [id |-> g.id, created_at |-> g.created_at, user_id |-> g.user_id,
   message_count |-> g.message_count,
   last_activity |-> IF g.max_created_at # Null THEN g.max_created_at
                     ELSE g.created_at]

\* GET /
ListTopics ==
  /\ \E rows \in Orderings(TopicGroups,
         { p \in TopicGroups \X TopicGroups : ActivityDesc(p[1], p[2]) }) :
       resp' = Response("listTopics", 200, "closed", 0, 0,
                        [i \in DOMAIN rows |-> TopicEntry(rows[i])])
  /\ UNCHANGED <<users, topics, messages, clock, issued, pc, pending, regLog>>

\* POST /
CreateTopic(token, body) ==
  /\ IF get_user_id_from_token(token) = {}
     THEN /\ resp' = WithText(Response("createTopic", 401, "closed", 0, token,
                                       <<>>), body, body.title)
          /\ UNCHANGED topics
     ELSE \E user_id \in get_user_id_from_token(token) :
          IF Unparsable(body)
          THEN /\ resp' = [Raised("createTopic", "json.loads") EXCEPT
                             !.token = token]
               /\ UNCHANGED topics
          ELSE LET title == Strip(body.title)
                   id == Len(topics) + 1
               IN IF title = <<>>
                  THEN /\ resp' = WithText(Response("createTopic", 400,
                                             "closed", 0, token, <<>>),
                                           body, body.title)
                       /\ UNCHANGED topics
                  ELSE /\ Len(topics) < MaxTopics
                       /\ topics' = Append(topics,
                             [id |-> id, title |-> title, user_id |-> user_id,
                              created_at |-> clock])
                       /\ resp' = WithText(Response("createTopic", 201,
                                             "closed", id, token, <<>>),
                                           body, body.title)
  /\ UNCHANGED <<users, messages, clock, issued, pc, pending, regLog>>

\* The SELECT below without its WHERE clause.
TopicMessagesAll(topic_id) == Range(messages)

\* SELECT ... FROM messages m LEFT JOIN users u ON m.user_id = u.id
\* WHERE m.topic_id = %s ORDER BY m.created_at ASC
TopicMessages(topic_id) == { m \in Range(messages) : m.topic_id = topic_id }

\* GET .../messages?topic_id=ID
ListTopicMessages(topic_id) ==
  /\ IF topic_id = 0
     THEN resp' = Response("listTopicMessages", 400, "closed", 0, 0, <<>>)
     ELSE \E rows \in Orderings(TopicMessages(topic_id),
            { p \in TopicMessages(topic_id) \X TopicMessages(topic_id) :
                CreatedAsc(p[1], p[2]) }) :
            resp' = Response("listTopicMessages", 200, "closed", topic_id, 0,
                             [i \in DOMAIN rows |-> rows[i].id])
  /\ UNCHANGED <<users, topics, messages, clock, issued, pc, pending, regLog>>

\* POST .../messages
CreateTopicMessage(token, body) ==
  /\ IF get_user_id_from_token(token) = {}
     THEN /\ resp' = WithText(Response("createTopicMessage", 401, "closed", 0,
                                       token, <<>>), body, body.content)
          /\ UNCHANGED messages
     ELSE \E user_id \in get_user_id_from_token(token) :
          IF Unparsable(body)
          THEN /\ resp' = [Raised("createTopicMessage", "json.loads")
                            EXCEPT !.token = token]
               /\ UNCHANGED messages
          ELSE LET content == Strip(body.content)
                   id == Len(messages) + 1
               IN IF content = <<>> \/ body.topic_id = 0
                  THEN /\ resp' = WithText(Response("createTopicMessage", 400,
                                             "closed", 0, token, <<>>),
                                           body, body.content)
                       /\ UNCHANGED messages
                  ELSE /\ Len(messages) < MaxMessages
                       /\ messages' = Append(messages,
                             [id |-> id, content |-> content,
                              user_id |-> user_id, topic_id |-> body.topic_id,
                              created_at |-> clock])
                       /\ resp' = WithText(Response("createTopicMessage", 201,
                                             "closed", id, token, <<>>),
                                           body, body.content)
  /\ UNCHANGED <<users, topics, clock, issued, pc, pending, regLog>>

\* Any unmatched method/path of the topics handler.
TopicsNotFound ==
  /\ resp' = Response("topics-other", 404, "closed", 0, 0, <<>>)
  /\ UNCHANGED <<users, topics, messages, clock, issued, pc, pending, regLog>>

(* ------------------------- board and forum runs ------------------------ *)
\* The users table the board and the forum run against, as the auth handler
\* leaves it: nobody registered, or "a" registered, or "a" and then "A"; each
\* got one token with the 201 response.
SeedUsers ==
  << [id |-> 1, username |-> <<"a">>, email |-> <<"a">>,
      password_hash |-> hash_password(<<"a">>)],
     [id |-> 2, username |-> <<"A">>, email |-> <<"A">>,
      password_hash |-> hash_password(<<"a">>)] >>

InitSeeded(registered) ==
  /\ \E n \in 0..registered :
       /\ users = SubSeq(SeedUsers, 1, n)
       /\ issued = [k \in 1..n |-> k]
  /\ topics = <<>>
  /\ messages = <<>>
  /\ clock = 1
  /\ pc = [p \in Procs |-> "idle"]
  /\ pending = [p \in Procs |-> NoPending]
  /\ regLog = <<>>
  /\ resp = NoResp

\* The messages handler and the topics handler over a store with at most one
\* registered user.
Init == InitSeeded(1)

Next ==
  \/ Tick
  \/ MessagesOptions
  \/ MessagesList
  \/ \E body \in BoardBodies : MessagesCreate(body)
  \/ MessagesOther
  \/ TopicsOptions
  \/ ListTopics
  \/ \E token \in ForumTokenHeaders : \E body \in TopicBodies :
       CreateTopic(token, body)
  \/ \E topic_id \in TopicIds : ListTopicMessages(topic_id)
  \/ \E token \in ForumTokenHeaders : \E body \in TopicMessageBodies :
       CreateTopicMessage(token, body)
  \/ TopicsNotFound

Spec == Init /\ [][Next]_vars

\* The create requests that pass validation.
BoardPosts ==
  { b \in BoardBodies : b.kind = "json" /\ Strip(b.content) # <<>> }

TopicPosts ==
  { b \in TopicBodies : b.kind = "json" /\ Strip(b.title) # <<>> }

TopicMessagePosts ==
  { b \in TopicMessageBodies :
      b.kind = "json" /\ Strip(b.content) # <<>> /\ b.topic_id # 0 }

\* The store as the accepted create requests build it.  A rejected request
\* leaves the three tables as they are.
Populate ==
  \/ Tick
  \/ \E body \in BoardPosts : MessagesCreate(body)
  \/ \E body \in TopicPosts : CreateTopic(1, body)
  \/ \E body \in TopicMessagePosts : CreateTopicMessage(1, body)

\* listTopics over every store the create requests can build.
NextTopicList ==
  \/ Populate
  \/ ListTopics

SpecTopicList == Init /\ [][NextTopicList]_vars

\* listTopicMessages over every store the create requests can build.
NextTopicMessages ==
  \/ Populate
  \/ \E topic_id \in TopicIds : ListTopicMessages(topic_id)

SpecTopicMessages == Init /\ [][NextTopicMessages]_vars

\* The three create operations with every body and header, at one clock
\* reading.
NextCreate ==
  \/ \E body \in BoardBodies : MessagesCreate(body)
  \/ \E token \in ForumTokenHeaders : \E body \in TopicBodies :
       CreateTopic(token, body)
  \/ \E token \in ForumTokenHeaders : \E body \in TopicMessageBodies :
       CreateTopicMessage(token, body)

SpecCreate == Init /\ [][NextCreate]_vars

\* The create operations of the topics handler over a store with up to two
\* registered users.
InitIdentity == InitSeeded(2)

NextIdentity ==
  \/ \E token \in TokenHeaders : \E body \in TopicBodies :
       CreateTopic(token, body)
  \/ \E token \in TokenHeaders : \E body \in TopicMessageBodies :
       CreateTopicMessage(token, body)

SpecIdentity == InitIdentity /\ [][NextIdentity]_vars

(* ============================== properties ============================= *)
\* The user token k was returned to by register or login, if any.
IssuedTo(token) ==
  IF token \in 1..Len(issued) THEN {issued[token]} ELSE {}

IsBlank(s) == \A i \in 1..Len(s) : s[i] \in Whitespace

MessagesOf(topic_id) == { m \in Range(messages) : m.topic_id = topic_id }

LatestMessage(topic_id) == Max({ m.created_at : m \in MessagesOf(topic_id) })

Matches(row, username, email) == row.username = username \/ row.email = email

\* C1: createTopic and createTopicMessage resolve the X-Auth-Token to the
\* user it was issued to: a request whose token is absent or was never issued
\* is answered 401 and carries no inserted row, and a 201 response's row is
\* owned by the user the token was issued to.
C1_TokenResolvesToIssuer ==
  resp.op \in {"createTopic", "createTopicMessage"} =>
    /\ IssuedTo(resp.token) = {} => resp.status = 401 /\ resp.id = 0
    /\ resp.status = 201 =>
         LET row == IF resp.op = "createTopic" THEN topics[resp.id]
                    ELSE messages[resp.id]
         IN row.user_id \in IssuedTo(resp.token)

\* C2: under every interleaving of the SELECT and INSERT steps of concurrent
\* registers, no two rows of the users table share a username or an email,
\* and no two 201 responses of register share a username or an email.
C2_RegisterRaceSafe ==
  /\ \A i, j \in 1..Len(users) :
       i # j => ~ Matches(users[i], users[j].username, users[j].email)
  /\ \A i, j \in 1..Len(regLog) :
       i # j => ~ Matches(regLog[i], regLog[j].username, regLog[j].email)

\* A register passed its existence SELECT, another register committed a user
\* with the same username or email, and the first one's INSERT was refused.
C2_Witness ==
  /\ resp.op = "register"
  /\ resp.error = "UniqueViolation"
  /\ Len(regLog) >= 1

\* The register bodies whose three fields are non-empty after trimming.
CompleteRegisterBodies ==
  { b \in RegisterBodies :
      /\ b.kind = "json"
      /\ ~ IsBlank(b.username)
      /\ ~ IsBlank(b.email)
      /\ ~ IsBlank(b.password) }

\* C3: a register with three non-empty trimmed fields whose username or email
\* equals an existing user's is answered 409 and leaves the users table
\* unchanged; one that matches no existing user is answered 201 and adds
\* exactly one user.  Stated of the step that ends the invocation, against the
\* users table of that step.
C3_RegisterConflictOrCreated ==
  [][ \A p \in Procs :
        /\ \A body \in CompleteRegisterBodies :
             ( /\ pc[p] = "idle"
               /\ RegisterSelect(p, body)
               /\ \E u \in Range(users) :
                    Matches(u, Strip(body.username), Strip(body.email)) )
             => resp'.status = 409 /\ users' = users /\ pc'[p] = "idle"
        /\ RegisterInsert(p) =>
             IF \E u \in Range(users) :
                  Matches(u, pending[p].username, pending[p].email)
             THEN resp'.status = 409 /\ users' = users
             ELSE resp'.status = 201 /\ Len(users') = Len(users) + 1
    ]_vars

JsonLoginBodies == { b \in LoginBodies : b.kind = "json" }

\* C4 as stated: a login with the email and password of a 201 register is
\* answered 200 with that register's user id; a login with a registered email
\* and another password, or with an email no user has, is answered 401.
C4_LoginAsStated ==
  [][ resp'.op = "login" => \A p \in Procs : \A body \in JsonLoginBodies :
        Login(p, body) =>
          /\ \A i \in 1..Len(regLog) :
               (regLog[i].email = body.email
                  /\ regLog[i].password = body.password)
               => resp'.status = 200 /\ resp'.id = regLog[i].id
          /\ ( /\ \E i \in 1..Len(regLog) : regLog[i].email = body.email
               /\ \A i \in 1..Len(regLog) :
                    regLog[i].email = body.email
                    => regLog[i].password # body.password )
             => resp'.status = 401
          /\ (\A u \in Range(users) : u.email # body.email)
             => resp'.status = 401
    ]_vars

\* C4 amended: with email and password compared after trimming, a login with
\* the email and password of a 201 register is answered 200 with that
\* register's user id; a login whose email and password are both non-empty
\* after trimming is answered 401 when the email is registered with another
\* password and when no user has the email.
C4_LoginTrimmed ==
  [][ resp'.op = "login" => \A p \in Procs : \A body \in JsonLoginBodies :
        Login(p, body) =>
          LET email == Strip(body.email)
              password == Strip(body.password)
          IN /\ \A i \in 1..Len(regLog) :
                  (regLog[i].email = email /\ regLog[i].password = password)
                  => resp'.status = 200 /\ resp'.id = regLog[i].id
             /\ ( /\ ~ IsBlank(body.email)
                  /\ ~ IsBlank(body.password)
                  /\ \E i \in 1..Len(regLog) : regLog[i].email = email
                  /\ \A i \in 1..Len(regLog) :
                       regLog[i].email = email
                       => regLog[i].password # password )
                => resp'.status = 401
             /\ ( /\ ~ IsBlank(body.email)
                  /\ ~ IsBlank(body.password)
                  /\ \A u \in Range(users) : u.email # email )
                => resp'.status = 401
    ]_vars

\* The first registered user logs in after a second user has registered.
C4_Witness ==
  /\ resp.op = "login"
  /\ resp.status = 200
  /\ resp.id = 1
  /\ Len(regLog) = 2

\* C5: no invocation ends with its store connection still open.
C5_ConnectionReleased == resp.conn # "open"

\* C6: listTopics reports every topic once, with message_count equal to the
\* number of stored messages of the topic and last_activity equal to the
\* latest created_at of those messages, or to the topic's created_at when it
\* has none.
C6_TopicAggregates ==
  (resp.op = "listTopics") =>
    /\ Len(resp.list) = Len(topics)
    /\ { resp.list[i].id : i \in 1..Len(resp.list) } = 1..Len(topics)
    /\ \A i \in 1..Len(resp.list) :
         LET e == resp.list[i]
         IN /\ e.message_count = Cardinality(MessagesOf(e.id))
            /\ e.last_activity =
                 IF MessagesOf(e.id) = {} THEN topics[e.id].created_at
                 ELSE LatestMessage(e.id)

\* A topic with two messages posted at T1 < T2 is listed with count 2 and
\* last_activity T2, next to a topic without messages listed with count 0.
C6_Witness ==
  /\ resp.op = "listTopics"
  /\ \E i, j \in 1..Len(resp.list) :
       /\ resp.list[i].message_count = 2
       /\ resp.list[i].last_activity = LatestMessage(resp.list[i].id)
       /\ \E m \in MessagesOf(resp.list[i].id) :
            m.created_at < resp.list[i].last_activity
       /\ resp.list[j].message_count = 0
       /\ resp.list[j].last_activity = topics[resp.list[j].id].created_at

\* C7: listTopicMessages returns exactly the stored messages of the requested
\* topic, each once, and a message created earlier never comes after one
\* created later.
C7_TopicMessagesAscending ==
  (resp.op = "listTopicMessages" /\ resp.status = 200) =>
    /\ { resp.list[i] : i \in 1..Len(resp.list) } =
         { m.id : m \in MessagesOf(resp.id) }
    /\ Len(resp.list) = Cardinality(MessagesOf(resp.id))
    /\ \A i, j \in 1..Len(resp.list) :
         messages[resp.list[i]].created_at < messages[resp.list[j]].created_at
         => i < j

\* Two messages of one topic posted at T1 < T2, with a message posted
\* elsewhere in between, are listed as [T1, T2].
C7_Witness ==
  /\ resp.op = "listTopicMessages"
  /\ resp.list = <<1, 3>>
  /\ Len(messages) = 3
  /\ messages[2].topic_id # resp.id
  /\ messages[1].created_at < messages[3].created_at

\* C8: a list of the board issued after a board POST answered 201 and before
\* any other message is created returns that message first.
C8_NewMessageFirst ==
  ( /\ resp.op = "list"
    /\ messages # <<>>
    /\ messages[Len(messages)].topic_id = Null )
  => resp.list[1] = messages[Len(messages)].id

\* C9: in listTopics no topic without messages comes before a topic with
\* messages, topics with messages come latest message first, and topics
\* without messages come latest created first.
C9_TopicsByActivity ==
  (resp.op = "listTopics") =>
    \A i, j \in 1..Len(resp.list) :
      i < j =>
        LET a == resp.list[i].id
            b == resp.list[j].id
        IN /\ ~ (MessagesOf(a) = {} /\ MessagesOf(b) # {})
           /\ (MessagesOf(a) # {} /\ MessagesOf(b) # {})
              => LatestMessage(a) >= LatestMessage(b)
           /\ (MessagesOf(a) = {} /\ MessagesOf(b) = {})
              => topics[a].created_at >= topics[b].created_at

\* A topic whose latest message is older than the creation of a topic
\* without messages is listed before it.
C9_Witness ==
  /\ resp.op = "listTopics"
  /\ Len(resp.list) = 2
  /\ MessagesOf(resp.list[1].id) # {}
  /\ MessagesOf(resp.list[2].id) = {}
  /\ resp.list[1].last_activity < resp.list[2].last_activity

StoredTextNonBlank ==
  /\ \A m \in Range(messages) : ~ IsBlank(m.content)
  /\ \A t \in Range(topics) : ~ IsBlank(t.title)

\* The step answers a create request with a parsed body whose content or
\* title is empty or whitespace-only.
AnswersBlankCreate ==
  /\ resp'.op \in {"create", "createTopic", "createTopicMessage"}
  /\ resp'.kind = "json"
  /\ IsBlank(resp'.text)

\* C10 as stated: every stored message has non-blank content and every stored
\* topic a non-blank title, and a board POST, createTopic or
\* createTopicMessage whose content or title is blank is answered 400 and
\* inserts nothing.
C10_BlankCreateIs400 ==
  [][ /\ StoredTextNonBlank'
      /\ AnswersBlankCreate =>
           /\ resp'.status = 400
           /\ messages' = messages
           /\ topics' = topics
    ]_vars

\* C10 amended: every stored message has non-blank content and every stored
\* topic a non-blank title; a create request whose content or title is blank
\* inserts nothing and is answered 400, except that createTopic and
\* createTopicMessage answer 401 when the request has no X-Auth-Token or the
\* users table is empty.
C10_BlankCreateRejected ==
  [][ /\ StoredTextNonBlank'
      /\ AnswersBlankCreate =>
           /\ resp'.status =
                IF resp'.op # "create" /\ (resp'.token = 0 \/ users = <<>>)
                THEN 401 ELSE 400
           /\ messages' = messages
           /\ topics' = topics
    ]_vars

\* A createTopic with a blank title is answered 400 while the store holds a
\* topic and a message.
C10_Witness ==
  /\ resp.op = "createTopic"
  /\ resp.status = 400
  /\ topics # <<>>
  /\ messages # <<>>

====
